---- MODULE Spec2Model ----
(***************************************************************************)
(* Model of the survey ranking / final-submission engine:                  *)
(*   services/ranking_service.py  (AnswerRanker, QuestionProcessor,        *)
(*                                 RankingService)                         *)
(*   database/db_handler.py       (eligibility rules, reconciliation)      *)
(*                                                                         *)
(* Texts are sequences of one-character strings so that str.strip() and    *)
(* str.lower() are modelled by what they do.                               *)
(***************************************************************************)
EXTENDS Integers, Sequences, FiniteSets, TLC

VARIABLES
    pc,               \* position of the operation under analysis
    scoring_values,   \* AnswerRanker.scoring_values
    answers,          \* the answer list handed to rank_answers
    all_answers,      \* rank_answers: returned list
    answers_ranked,   \* rank_answers: returned ranked count
    answers_scored,   \* rank_answers: returned scored count
    question,         \* the question handed to the eligibility rules
    should_include,   \* _validate_and_prepare_answers_for_final: eligible flag
    final_answers,    \* _validate_and_prepare_answers_for_final: answer list
    questions,        \* the questions handed to submit_final_questions
    final_questions,  \* the Final Question Records prepared from them
    existing_final_questions, \* the records of the remote final collection
    new_questions,            \* _categorize_questions_for_submission: new
    updated_questions,        \* _categorize_questions_for_submission: changed
    unchanged_questions,      \* _categorize_questions_for_submission: unchanged
    compared_new,             \* _answers_have_changed: the local record
    compared_existing,        \* _answers_have_changed: the remote record
    has_changed,              \* _answers_have_changed: returned flag
    remote_final,             \* the final collection as the remote store holds it
    existing_retrieved,       \* _get_existing_final_questions returned a list
    calls,                    \* the calls made to the remote store, in order
    total_submitted,          \* _handle_final_submission_with_updates: counter
    successful_updates,       \* _update_existing_final_questions: counter
    update_index,             \* _update_existing_final_questions: loop position
    final_result,             \* the dict submit_final_questions returns
    runs,                     \* number of runs started
    stored_questions,         \* the questions as the remote store holds them
    fetched_questions,        \* process_all_questions: questions
    processing_result,        \* _process_questions_batch: returned dict
    ranking_result,           \* process_all_questions: returned dict
    final_summary,            \* get_final_submission_summary: returned dict
    earlier_calls,            \* the calls made in the runs before this one
    summary                   \* process_all_questions_with_final_submission: returned dict

rankVars == <<scoring_values, answers, all_answers, answers_ranked, answers_scored>>
eligVars == <<question, should_include, final_answers, questions, final_questions>>
catVars == <<existing_final_questions, new_questions, updated_questions,
             unchanged_questions>>
cmpVars == <<compared_new, compared_existing, has_changed>>
subVars == <<remote_final, existing_retrieved, calls, total_submitted,
             successful_updates, update_index, final_result, runs>>
runVars == <<stored_questions, fetched_questions, processing_result,
             ranking_result, final_summary, earlier_calls, summary>>
vars == <<pc, rankVars, eligVars, catVars, cmpVars, subVars, runVars>>

(***************************************************************************)
(* Bounds                                                                  *)
(***************************************************************************)
MaxAnswers == 4

(***************************************************************************)
(* Generic helpers                                                         *)
(***************************************************************************)
Range(s) == {s[i] : i \in DOMAIN s}

SeqsUpTo(S, n) == UNION {[1..k -> S] : k \in 0..n}

\* str.lower()
UpperCase == <<"A", "B", "C", "D", "E", "F", "G", "H", "I", "J", "K", "L", "M",
               "N", "O", "P", "Q", "R", "S", "T", "U", "V", "W", "X", "Y", "Z">>
LowerCase == <<"a", "b", "c", "d", "e", "f", "g", "h", "i", "j", "k", "l", "m",
               "n", "o", "p", "q", "r", "s", "t", "u", "v", "w", "x", "y", "z">>
LowerChar(c) ==
    IF \E i \in DOMAIN UpperCase : UpperCase[i] = c
    THEN LowerCase[CHOOSE i \in DOMAIN UpperCase : UpperCase[i] = c]
    ELSE c
Lower(t) == [i \in DOMAIN t |-> LowerChar(t[i])]

\* comparison of str values: by code point, character by character; a proper
\* prefix sorts first
CodePoints == <<" ">> \o UpperCase \o LowerCase
CharCode(c) == CHOOSE i \in DOMAIN CodePoints : CodePoints[i] = c
TextLess(t, u) ==
    \E k \in 1..Len(u) :
        /\ \A i \in 1..(k - 1) : i <= Len(t) /\ t[i] = u[i]
        /\ (k > Len(t) \/ CharCode(t[k]) < CharCode(u[k]))

\* str.strip(): drop leading and trailing whitespace
Strip(t) ==
    LET solid == {i \in DOMAIN t : t[i] # " "}
    IN  IF solid = {} THEN <<>>
        ELSE SubSeq(t, CHOOSE i \in solid : \A j \in solid : i <= j,
                       CHOOSE i \in solid : \A j \in solid : i >= j)

\* list.sort / sorted(): a stable sort. before[i][j] is "the key of s[i] sorts
\* strictly before the key of s[j]". The element at input position i lands
\* after every element whose key is strictly before its own and after every
\* earlier element whose key is not strictly after its own (equal keys keep
\* their input order).
StableSort(s, before) ==
    LET pos(i) == 1 + Cardinality({j \in 1..Len(s) :
                        \/ before[j][i]
                        \/ (j < i /\ ~before[i][j])})
    IN  [p \in 1..Len(s) |-> s[CHOOSE i \in 1..Len(s) : pos(i) = p]]

(***************************************************************************)
(* AnswerRanker                                                            *)
(***************************************************************************)
\* _separate_answers
SeparateCorrect(as) == SelectSeq(as, LAMBDA a : a.isCorrect)
SeparateIncorrectNone(as) == <<>>
SeparateIncorrect(as) == SelectSeq(as, LAMBDA a : ~a.isCorrect)

\* correct_answers.sort(key=responseCount, reverse=True): stable, descending
SortByResponseCountAsc(correct) ==
    StableSort(correct, [i \in DOMAIN correct |-> [j \in DOMAIN correct |->
        correct[i].responseCount < correct[j].responseCount]])
SortByResponseCountTiesReversed(correct) ==
    StableSort(correct, [i \in DOMAIN correct |-> [j \in DOMAIN correct |->
        \/ correct[i].responseCount > correct[j].responseCount
        \/ /\ correct[i].responseCount = correct[j].responseCount
           /\ i > j]])
SortByResponseCount(correct) ==
    StableSort(correct, [i \in DOMAIN correct |-> [j \in DOMAIN correct |->
        correct[i].responseCount > correct[j].responseCount]])

\* score = self.scoring_values[i] if i < len(self.scoring_values) else 0
ScoreForShifted(i, sv) == IF i + 1 < Len(sv) THEN sv[i + 2] ELSE 0
ScoreFor(i, sv) == IF i < Len(sv) THEN sv[i + 1] ELSE 0

\* the enumerate loop of _rank_correct_answers: rank = i + 1
AssignRanksZeroBased(sorted, sv) ==
    [p \in 1..Len(sorted) |->
        [sorted[p] EXCEPT !.rank = p - 1, !.score = ScoreFor(p - 1, sv)]]
AssignRanks(sorted, sv) ==
    [p \in 1..Len(sorted) |->
        [sorted[p] EXCEPT !.rank = p, !.score = ScoreFor(p - 1, sv)]]

\* _rank_correct_answers: (ranked list, answers_ranked, answers_scored)
RankCorrectAnswers(correct, sv) ==
    IF correct = <<>>
    THEN [list |-> <<>>, ranked |-> 0, scored |-> 0]
    ELSE LET out == AssignRanks(SortByResponseCount(correct), sv)
         IN  [list |-> out,
              ranked |-> Len(out),
              scored |-> Cardinality({p \in 1..Len(out) : out[p].score > 0})]

\* _reset_incorrect_answers
ResetIncorrectKeep(incorrect) == incorrect
ResetIncorrectAnswers(incorrect) ==
    [p \in 1..Len(incorrect) |-> [incorrect[p] EXCEPT !.rank = 0, !.score = 0]]

\* rank_answers
RankAnswersOf(as, sv) ==
    IF as = <<>>
    THEN [list |-> as, ranked |-> 0, scored |-> 0]
    ELSE LET rc == RankCorrectAnswers(SeparateCorrect(as), sv)
         IN  [list |-> rc.list \o ResetIncorrectAnswers(SeparateIncorrect(as)),
              ranked |-> rc.ranked,
              scored |-> rc.scored]

(***************************************************************************)
(* Inputs of the ranker                                                    *)
(***************************************************************************)
\* Scoring tables handed to AnswerRanker(scoring_values)
ScoringTables == {<<>>, <<100>>, <<100, 80, 60>>}

\* An answer as fetched: correctness, observed response count and whatever
\* rank / score it carried before this run.
AnswerTemplates ==
    [isCorrect : {TRUE}, responseCount : {2, 7, 10},
     rank : {0}, score : {0}, answer : {<<"a">>}]
    \cup {[isCorrect |-> TRUE, responseCount |-> 7,
           rank |-> 2, score |-> 80, answer |-> <<"a">>],
          [isCorrect |-> FALSE, responseCount |-> 7,
           rank |-> 0, score |-> 0, answer |-> <<"b">>],
          [isCorrect |-> FALSE, responseCount |-> 10,
           rank |-> 1, score |-> 100, answer |-> <<"b">>]}

\* answerID is the position in the fetched list: it identifies the dict object
WithIds(ts) ==
    [p \in 1..Len(ts) |->
        [answerID |-> p, answer |-> ts[p].answer, isCorrect |-> ts[p].isCorrect,
         responseCount |-> ts[p].responseCount, rank |-> ts[p].rank,
         score |-> ts[p].score]]

AnswerLists == {WithIds(ts) : ts \in SeqsUpTo(AnswerTemplates, MaxAnswers)}

\* Parts of the state an analysis does not use
NoQuestion ==
    [questionID |-> "", question |-> <<>>, questionType |-> <<>>,
     questionCategory |-> "", questionLevel |-> "",
     timesSkipped |-> 0, timesAnswered |-> 0, answers |-> <<>>]

EligIdle ==
    /\ question = NoQuestion
    /\ should_include = FALSE
    /\ final_answers = <<>>
    /\ questions = <<>>
    /\ final_questions = <<>>

CatIdle ==
    /\ existing_final_questions = <<>>
    /\ new_questions = <<>>
    /\ updated_questions = <<>>
    /\ unchanged_questions = <<>>

RankIdle ==
    /\ scoring_values = <<>>
    /\ answers = <<>>
    /\ all_answers = <<>>
    /\ answers_ranked = 0
    /\ answers_scored = 0

\* a name not yet bound to a dict
NoDict == [unset |-> TRUE]

CmpIdle ==
    /\ compared_new = NoDict
    /\ compared_existing = NoDict
    /\ has_changed = FALSE

SubIdle ==
    /\ remote_final = <<>>
    /\ existing_retrieved = FALSE
    /\ calls = <<>>
    /\ total_submitted = 0
    /\ successful_updates = 0
    /\ update_index = 0
    /\ final_result = NoDict
    /\ runs = 0

RunIdle ==
    /\ stored_questions = <<>>
    /\ fetched_questions = <<>>
    /\ processing_result = NoDict
    /\ ranking_result = NoDict
    /\ final_summary = NoDict
    /\ earlier_calls = <<>>
    /\ summary = NoDict

(***************************************************************************)
(* Specification of the ranker                                             *)
(***************************************************************************)
InitRank ==
    /\ pc = "rank_answers"
    /\ scoring_values \in ScoringTables
    /\ answers \in AnswerLists
    /\ all_answers = <<>>
    /\ answers_ranked = 0
    /\ answers_scored = 0
    /\ EligIdle
    /\ CatIdle
    /\ CmpIdle
    /\ SubIdle
    /\ RunIdle

RankAnswers ==
    /\ pc = "rank_answers"
    /\ LET r == RankAnswersOf(answers, scoring_values)
       IN  /\ all_answers' = r.list
           /\ answers_ranked' = r.ranked
           /\ answers_scored' = r.scored
    /\ pc' = "ranked"
    /\ UNCHANGED <<scoring_values, answers, eligVars, catVars, cmpVars,
                   subVars, runVars>>

\* rank_answers called on the list it returned
RankAgain ==
    /\ pc = "ranked"
    /\ LET r == RankAnswersOf(all_answers, scoring_values)
       IN  /\ all_answers' = r.list
           /\ answers_ranked' = r.ranked
           /\ answers_scored' = r.scored
    /\ pc' = "ranked_again"
    /\ UNCHANGED <<scoring_values, answers, eligVars, catVars, cmpVars,
                   subVars, runVars>>

NextRank == RankAnswers \/ RankAgain

SpecRank == InitRank /\ [][NextRank]_vars

(***************************************************************************)
(* Properties of the ranker                                                *)
(***************************************************************************)
CorrectIn(as) == {p \in DOMAIN as : as[p].isCorrect}
IncorrectIn(as) == {p \in DOMAIN as : ~as[p].isCorrect}

\* C1 (rank contiguity): when the input list has k >= 1 correct answers, the
\* result has k correct answers and their ranks are exactly 1..k, so each
\* rank is used once.
C1_RankContiguity ==
    pc = "ranked" =>
        LET k == Cardinality(CorrectIn(answers))
            C == CorrectIn(all_answers)
        IN  k >= 1 =>
                /\ Cardinality(C) = k
                /\ {all_answers[p].rank : p \in C} = 1..k

C1_Witness ==
    /\ pc = "ranked"
    /\ Cardinality(CorrectIn(answers)) = 3
    /\ \E p, q \in CorrectIn(answers) :
            p # q /\ answers[p].responseCount = answers[q].responseCount
    /\ IncorrectIn(answers) # {}

\* C2 (incorrect-answer invariant): every answer whose correctness flag is
\* false comes back with rank 0 and score 0, whatever it carried on input.
C2_IncorrectReset ==
    pc = "ranked" =>
        /\ \A p \in IncorrectIn(all_answers) :
                all_answers[p].rank = 0 /\ all_answers[p].score = 0
        /\ \A p \in IncorrectIn(answers) :
                \E q \in IncorrectIn(all_answers) :
                    all_answers[q].answerID = answers[p].answerID

C2_Witness ==
    /\ pc = "ranked"
    /\ \E p \in IncorrectIn(answers) :
            /\ answers[p].rank > 0 /\ answers[p].score > 0
            /\ \E q \in IncorrectIn(all_answers) :
                    /\ all_answers[q].answerID = answers[p].answerID
                    /\ all_answers[q].rank = 0
    /\ CorrectIn(answers) # {}

\* C3 (score monotonicity, stable ties): among the correct answers of the
\* result a larger response count means a smaller rank, and equal response
\* counts are ranked in input order (answerID is the input position).
C3_Monotone ==
    pc = "ranked" =>
        \A p, q \in CorrectIn(all_answers) :
            LET A == all_answers[p]
                B == all_answers[q]
            IN  /\ A.responseCount > B.responseCount => A.rank < B.rank
                /\ (A.responseCount = B.responseCount /\ A.answerID < B.answerID)
                        => A.rank < B.rank

C3_Witness ==
    /\ pc = "ranked"
    /\ \E p, q, r \in CorrectIn(all_answers) :
            /\ all_answers[p].responseCount = all_answers[q].responseCount
            /\ all_answers[p].answerID < all_answers[q].answerID
            /\ all_answers[r].responseCount > all_answers[p].responseCount
            /\ all_answers[r].answerID > all_answers[q].answerID
            /\ all_answers[r].rank < all_answers[p].rank
            /\ all_answers[p].rank < all_answers[q].rank

\* C4 (scoring table): the correct answer ranked r has score T[r] (1-based,
\* i.e. T[r-1] of the 0-indexed table) when r <= len(T) and 0 beyond; response
\* counts [10, 7, 7, 2] with T = [100, 80, 60] give ranks [1, 2, 3, 4] and
\* scores [100, 80, 60, 0].
ExampleInput ==
    /\ Len(answers) = 4
    /\ CorrectIn(answers) = 1..4
    /\ [p \in 1..4 |-> answers[p].responseCount] = <<10, 7, 7, 2>>
    /\ scoring_values = <<100, 80, 60>>

C4_ScoreTable ==
    pc = "ranked" =>
        /\ \A p \in CorrectIn(all_answers) :
                LET r == all_answers[p].rank
                IN  all_answers[p].score =
                        IF r <= Len(scoring_values) THEN scoring_values[r] ELSE 0
        /\ ExampleInput =>
                /\ [p \in 1..4 |-> all_answers[p].answerID] = <<1, 2, 3, 4>>
                /\ [p \in 1..4 |-> all_answers[p].rank] = <<1, 2, 3, 4>>
                /\ [p \in 1..4 |-> all_answers[p].score] = <<100, 80, 60, 0>>

C4_Witness ==
    /\ pc = "ranked"
    /\ ExampleInput
    /\ all_answers[4].score = 0
    /\ all_answers[3].score = 60

(***************************************************************************)
(* Eligibility and preparation rules (database/db_handler.py)              *)
(***************************************************************************)
TypeInput == <<"i", "n", "p", "u", "t">>
TypeMcq == <<"m", "c", "q">>

\* the dict built for every answer of a final record; int() of an integer is
\* the integer, str() of a text is the text
FinalAnswer(a, flag) ==
    [answer |-> Strip(a.answer), responseCount |-> a.responseCount,
     isCorrect |-> flag, rank |-> a.rank, score |-> a.score]

\* _prepare_input_question_for_final, the filter loop:
\* isCorrect is True and rank > 0 and score > 0
QualifyingIgnoringScore(all) ==
    SelectSeq(all, LAMBDA a : a.isCorrect /\ a.rank > 0)
QualifyingAnswers(all) ==
    SelectSeq(all, LAMBDA a : a.isCorrect /\ a.rank > 0 /\ a.score > 0)

\* correct_answers.sort(key=rank): stable, ascending
SortByRank(correct) ==
    StableSort(correct, [i \in DOMAIN correct |-> [j \in DOMAIN correct |->
        correct[i].rank < correct[j].rank]])

\* question['answers'] once the rules have run: the rules read the list, the
\* qualifying answers are appended to a list of their own and that list is
\* the one sorted; the emitted answers are new dictionaries
AllAnswersSortedInPlace(all) == SortByRank(all)
AllAnswersAfterRules(all) == all

\* _prepare_input_question_for_final
PrepareInputQuestionForFinal(all) ==
    LET correct == QualifyingAnswers(all)
    IN  IF Len(correct) < 3
        THEN [eligible |-> FALSE, answers |-> <<>>]
        ELSE LET top_3 == SubSeq(SortByRank(correct), 1, 3)
                 final == [p \in 1..3 |-> FinalAnswer(top_3[p], TRUE)]
             IN  IF \E p \in 1..3 : final[p].answer = <<>>
                 THEN [eligible |-> FALSE, answers |-> <<>>]
                 ELSE [eligible |-> TRUE, answers |-> final]

\* _prepare_mcq_question_for_final: answer_texts, the stripped lower-cased texts
McqAnswerTextsCased(all) == [p \in DOMAIN all |-> Strip(all[p].answer)]
McqAnswerTexts(all) == [p \in DOMAIN all |-> Lower(Strip(all[p].answer))]

\* _prepare_mcq_question_for_final
PrepareMcqQuestionForFinal(all) ==
    IF Len(all) # 4
    THEN [eligible |-> FALSE, answers |-> <<>>]
    ELSE IF Cardinality({p \in DOMAIN all : all[p].isCorrect}) # 1
    THEN [eligible |-> FALSE, answers |-> <<>>]
    ELSE IF \E p \in DOMAIN all : Strip(all[p].answer) = <<>>
    THEN [eligible |-> FALSE, answers |-> <<>>]
    ELSE IF Cardinality(Range(McqAnswerTexts(all))) # Len(all)
    THEN [eligible |-> FALSE, answers |-> <<>>]
    ELSE [eligible |-> TRUE,
          answers |-> [p \in DOMAIN all |-> FinalAnswer(all[p], all[p].isCorrect)]]

\* _validate_and_prepare_answers_for_final; question_type is the lower-cased
\* tag its caller passes
ValidateAndPrepareDefaultInput(q, question_type) ==
    IF question_type = TypeMcq
    THEN PrepareMcqQuestionForFinal(q.answers)
    ELSE PrepareInputQuestionForFinal(q.answers)
ValidateAndPrepareAnswersForFinal(q, question_type) ==
    IF question_type = TypeInput
    THEN PrepareInputQuestionForFinal(q.answers)
    ELSE IF question_type = TypeMcq
    THEN PrepareMcqQuestionForFinal(q.answers)
    ELSE [eligible |-> FALSE, answers |-> <<>>]

\* _prepare_questions_for_final_submission: the type test that lets a question
\* through to the rules (question_type != 'input' -> continue)
TypeSubmittedInputOrMcq(question_type) == question_type \in {TypeInput, TypeMcq}
TypeSubmitted(question_type) == question_type = TypeInput

\* the final_question dict
FinalQuestion(q, fa) ==
    [question |-> q.question, questionType |-> q.questionType,
     questionCategory |-> q.questionCategory, questionLevel |-> q.questionLevel,
     timesSkipped |-> q.timesSkipped, timesAnswered |-> q.timesAnswered,
     answers |-> fa]

\* _prepare_questions_for_final_submission: one iteration of the loop, the
\* records (none or one) it appends
PreparedFrom(q) ==
    LET question_type == Lower(q.questionType)
    IN  IF ~TypeSubmitted(question_type) THEN <<>>
        ELSE IF q.answers = <<>> THEN <<>>
        ELSE LET v == ValidateAndPrepareAnswersForFinal(q, question_type)
             IN  IF v.eligible /\ v.answers # <<>>
                 THEN <<FinalQuestion(q, v.answers)>>
                 ELSE <<>>

\* _prepare_questions_for_final_submission
RECURSIVE PrepareQuestionsForFinalSubmission(_)
PrepareQuestionsForFinalSubmission(qs) ==
    IF qs = <<>> THEN <<>>
    ELSE PreparedFrom(Head(qs)) \o PrepareQuestionsForFinalSubmission(Tail(qs))

(***************************************************************************)
(* Inputs of the eligibility rules                                         *)
(***************************************************************************)
\* question type tags as they come from the store
TypeTags == {<<"I", "n", "p", "u", "t">>, <<"M", "C", "Q">>,
             <<"m", "c", "q">>, <<"Q", "u", "i", "z">>}

\* answers of a re-fetched question: text, flag, responseCount, rank, score
EligTemplates ==
    {[answer |-> <<"a">>, isCorrect |-> TRUE, responseCount |-> 10,
      rank |-> 1, score |-> 100],
     [answer |-> <<" ", "A">>, isCorrect |-> TRUE, responseCount |-> 7,
      rank |-> 2, score |-> 80],
     [answer |-> <<" ">>, isCorrect |-> TRUE, responseCount |-> 7,
      rank |-> 3, score |-> 60],
     [answer |-> <<"b">>, isCorrect |-> TRUE, responseCount |-> 2,
      rank |-> 4, score |-> 0],
     [answer |-> <<"c">>, isCorrect |-> FALSE, responseCount |-> 2,
      rank |-> 0, score |-> 0],
     [answer |-> <<"B", " ">>, isCorrect |-> FALSE, responseCount |-> 0,
      rank |-> 3, score |-> 60],
     [answer |-> <<"d">>, isCorrect |-> FALSE, responseCount |-> 0,
      rank |-> 0, score |-> 0]}

EligAnswerLists == {WithIds(ts) : ts \in SeqsUpTo(EligTemplates, MaxAnswers)}

QuestionWith(id, text, tag, as) ==
    [questionID |-> id, question |-> text, questionType |-> tag,
     questionCategory |-> "General", questionLevel |-> "Beginner",
     timesSkipped |-> 0, timesAnswered |-> 1, answers |-> as]

EligQuestions ==
    {QuestionWith("q1", <<"q">>, tag, as) : tag \in TypeTags, as \in EligAnswerLists}

\* a second question of the batch: an Input question with three ranked,
\* scored correct answers
OtherQuestion ==
    QuestionWith("q2", <<"r">>, <<"i", "n", "p", "u", "t">>,
        WithIds(<<[answer |-> <<"x">>, isCorrect |-> TRUE, responseCount |-> 5,
                   rank |-> 1, score |-> 100],
                  [answer |-> <<"y">>, isCorrect |-> TRUE, responseCount |-> 4,
                   rank |-> 2, score |-> 80],
                  [answer |-> <<"z">>, isCorrect |-> TRUE, responseCount |-> 3,
                   rank |-> 3, score |-> 60]>>))

Batches(q) == {<<OtherQuestion, q>>, <<q, OtherQuestion>>}

(***************************************************************************)
(* Specification of the eligibility rules                                  *)
(***************************************************************************)
InitElig ==
    /\ pc = "eligibility"
    /\ question \in EligQuestions
    /\ should_include = FALSE
    /\ final_answers = <<>>
    /\ questions = <<>>
    /\ final_questions = <<>>
    /\ RankIdle
    /\ CatIdle
    /\ CmpIdle
    /\ SubIdle
    /\ RunIdle

\* the eligibility rule evaluated on the question
ValidateAndPrepare ==
    /\ pc = "eligibility"
    /\ LET v == ValidateAndPrepareAnswersForFinal(question, Lower(question.questionType))
       IN  /\ should_include' = v.eligible
           /\ final_answers' = v.answers
    /\ question' = [question EXCEPT !.answers = AllAnswersAfterRules(question.answers)]
    /\ pc' = "rule_done"
    /\ UNCHANGED <<questions, final_questions, rankVars, catVars, cmpVars,
                   subVars, runVars>>

\* submit_final_questions: the preparation of the Final Question Records of a
\* batch that holds the question
PrepareForFinal ==
    /\ pc = "eligibility"
    /\ \E batch \in Batches(question) :
            /\ questions' = batch
            /\ final_questions' = PrepareQuestionsForFinalSubmission(batch)
    /\ pc' = "prepared"
    /\ UNCHANGED <<question, should_include, final_answers, rankVars, catVars,
                   cmpVars, subVars, runVars>>

NextElig == ValidateAndPrepare \/ PrepareForFinal

SpecElig == InitElig /\ [][NextElig]_vars

(***************************************************************************)
(* Properties of the eligibility rules                                     *)
(***************************************************************************)
IsInputType(q) == Lower(q.questionType) = <<"i", "n", "p", "u", "t">>
IsMcqType(q) == Lower(q.questionType) = <<"m", "c", "q">>

\* positions of the answers that are correct, ranked and scored
Scored(as) ==
    {p \in DOMAIN as : as[p].isCorrect /\ as[p].rank > 0 /\ as[p].score > 0}

\* p comes before q by rank, input order deciding equal ranks
RankedBefore(as, p, q) ==
    as[p].rank < as[q].rank \/ (as[p].rank = as[q].rank /\ p < q)

\* the 3 lowest-ranked of the correct, ranked, scored answers
Lowest3(as) ==
    {p \in Scored(as) :
        Cardinality({q \in Scored(as) : RankedBefore(as, q, p)}) < 3}

\* an emitted answer is the input answer with its text trimmed
SameContent(f, a) ==
    /\ f.answer = Strip(a.answer)
    /\ f.responseCount = a.responseCount
    /\ f.rank = a.rank
    /\ f.score = a.score

\* C5 (Input rule): eligible exactly when at least 3 answers are correct with
\* rank > 0 and score > 0 and none of the 3 lowest-ranked of them has an empty
\* trimmed text; then exactly those 3 are emitted, in ascending rank order,
\* with isCorrect true; otherwise the emitted list is empty.
C5_InputRule ==
    (pc = "rule_done" /\ IsInputType(question)) =>
        LET as == question.answers
            ok == /\ Cardinality(Scored(as)) >= 3
                  /\ \A p \in Lowest3(as) : Strip(as[p].answer) # <<>>
        IN  /\ should_include <=> ok
            /\ ~should_include => final_answers = <<>>
            /\ should_include =>
                    /\ Len(final_answers) = 3
                    /\ \A i \in 1..3 :
                            /\ final_answers[i].isCorrect = TRUE
                            /\ \E p \in Lowest3(as) :
                                    /\ SameContent(final_answers[i], as[p])
                                    /\ Cardinality({q \in Lowest3(as) :
                                            RankedBefore(as, q, p)}) = i - 1
                    /\ \A i \in 1..2 :
                            final_answers[i].rank <= final_answers[i + 1].rank

\* eligible with a fourth qualifying answer left out and the input not in
\* rank order
C5_Witness ==
    /\ pc = "rule_done"
    /\ IsInputType(question)
    /\ should_include
    /\ Cardinality(Scored(question.answers)) = 4
    /\ \E p \in Scored(question.answers) :
            /\ p \notin Lowest3(question.answers)
            /\ Strip(question.answers[p].answer) = <<>>
    /\ question.answers[1].rank > question.answers[2].rank

\* not eligible although 3 answers qualify: one of the 3 has a blank text
C5_WitnessBlank ==
    /\ pc = "rule_done"
    /\ IsInputType(question)
    /\ ~should_include
    /\ Cardinality(Scored(question.answers)) >= 3

\* C6 (MCQ rule): eligible exactly when there are exactly 4 answers, exactly
\* 1 correct, every trimmed text non-empty and the 4 trimmed lower-cased
\* texts pairwise distinct; then all 4 are emitted in input order with their
\* correctness flags; otherwise the emitted list is empty.
C6_McqRule ==
    (pc = "rule_done" /\ IsMcqType(question)) =>
        LET as == question.answers
            ok == /\ Len(as) = 4
                  /\ Cardinality(CorrectIn(as)) = 1
                  /\ \A p \in DOMAIN as : Strip(as[p].answer) # <<>>
                  /\ \A p, q \in DOMAIN as :
                        p # q => Lower(Strip(as[p].answer)) # Lower(Strip(as[q].answer))
        IN  /\ should_include <=> ok
            /\ ~should_include => final_answers = <<>>
            /\ should_include =>
                    /\ Len(final_answers) = 4
                    /\ \A i \in 1..4 :
                            /\ SameContent(final_answers[i], as[i])
                            /\ final_answers[i].isCorrect = as[i].isCorrect

C6_Witness ==
    /\ pc = "rule_done"
    /\ IsMcqType(question)
    /\ should_include
    /\ \E i \in 1..4 : final_answers[i].answer # question.answers[i].answer
    /\ \E i \in 1..4 : ~final_answers[i].isCorrect /\ final_answers[i].rank > 0

\* rejected only because two texts differ in letter case alone
C6_WitnessCase ==
    /\ pc = "rule_done"
    /\ IsMcqType(question)
    /\ ~should_include
    /\ Len(question.answers) = 4
    /\ Cardinality(CorrectIn(question.answers)) = 1
    /\ \A p \in 1..4 : Strip(question.answers[p].answer) # <<>>
    /\ \A p, q \in 1..4 :
            p # q => Strip(question.answers[p].answer) # Strip(question.answers[q].answer)

\* the MCQ rule holds of a question
McqRuleHolds(q) ==
    /\ Len(q.answers) = 4
    /\ Cardinality(CorrectIn(q.answers)) = 1
    /\ \A p \in 1..4 : Strip(q.answers[p].answer) # <<>>
    /\ \A p, r \in 1..4 :
            p # r => Lower(Strip(q.answers[p].answer)) # Lower(Strip(q.answers[r].answer))

\* final_questions holds a record for q
RecordFor(q) ==
    {i \in DOMAIN final_questions :
        /\ final_questions[i].question = q.question
        /\ final_questions[i].questionType = q.questionType}

\* C7, as claimed: an MCQ question of the batch that satisfies the MCQ rule
\* has a record with all 4 answers among the prepared Final Question Records.
C7_McqQualifies ==
    pc = "prepared" =>
        \A k \in DOMAIN questions :
            (IsMcqType(questions[k]) /\ McqRuleHolds(questions[k])) =>
                \E i \in RecordFor(questions[k]) :
                    Len(final_questions[i].answers) = 4

\* C7, amended: no record is prepared for a question of type MCQ, also when
\* it satisfies the MCQ rule; every prepared record is of an Input question.
C7_McqNeverPrepared ==
    pc = "prepared" =>
        /\ \A k \in DOMAIN questions :
                IsMcqType(questions[k]) => RecordFor(questions[k]) = {}
        /\ \A i \in DOMAIN final_questions :
                Lower(final_questions[i].questionType) = <<"i", "n", "p", "u", "t">>

\* a batch with an MCQ question that satisfies the MCQ rule and an Input
\* question that is prepared
C7_Witness ==
    /\ pc = "prepared"
    /\ \E k \in DOMAIN questions :
            IsMcqType(questions[k]) /\ McqRuleHolds(questions[k])
    /\ Len(questions) = 2
    /\ Len(final_questions) = 1

\* C8 (other types): for a type tag that is neither 'input' nor 'mcq' when
\* lower-cased, the rule returns (not eligible, empty list) and no Final
\* Question Record is prepared for the question.
C8_OtherTypeNeverEligible ==
    /\ (pc = "rule_done" /\ ~IsInputType(question) /\ ~IsMcqType(question)) =>
            (~should_include /\ final_answers = <<>>)
    /\ pc = "prepared" =>
            \A k \in DOMAIN questions :
                (~IsInputType(questions[k]) /\ ~IsMcqType(questions[k])) =>
                    RecordFor(questions[k]) = {}

\* a question of another type whose answers would pass the Input rule
C8_Witness ==
    /\ pc = "prepared"
    /\ \E k \in DOMAIN questions :
            /\ ~IsInputType(questions[k]) /\ ~IsMcqType(questions[k])
            /\ PrepareInputQuestionForFinal(questions[k].answers).eligible
            /\ RecordFor(questions[k]) = {}
    /\ Len(final_questions) = 1

(***************************************************************************)
(* Reconciliation engine (database/db_handler.py)                          *)
(***************************************************************************)
\* question.get('question', '').strip().lower(): the lookup key
QuestionKeyCased(q) == Strip(q.question)
QuestionKey(q) == Lower(Strip(q.question))

\* existing_lookup: the position in the remote list of the record stored under
\* a key, 0 when the key is absent. Records with an empty key are not stored;
\* a later record with the same key replaces an earlier one.
ExistingLookupMissing(existing, key) == 0
ExistingLookup(existing, key) ==
    LET hits == {j \in DOMAIN existing :
                    QuestionKey(existing[j]) # <<>> /\ QuestionKey(existing[j]) = key}
    IN  IF hits = {} THEN 0 ELSE CHOOSE j \in hits : \A h \in hits : j >= h

\* normalize_answer_for_comparison
NormalizeAnswerForComparison(a) ==
    [answer |-> Lower(Strip(a.answer)), isCorrect |-> a.isCorrect,
     rank |-> a.rank, score |-> a.score, responseCount |-> a.responseCount]

\* sorted(..., key=lambda x: (x['answer'], x['rank']))
SortByAnswerAndRank(ns) ==
    StableSort(ns, [i \in DOMAIN ns |-> [j \in DOMAIN ns |->
        \/ TextLess(ns[i].answer, ns[j].answer)
        \/ (ns[i].answer = ns[j].answer /\ ns[i].rank < ns[j].rank)]])

\* _answers_have_changed
AnswersHaveChanged(new_question, existing_question) ==
    LET new_answers == new_question.answers
        existing_answers == existing_question.answers
    IN  IF Len(new_answers) # Len(existing_answers) THEN TRUE
        ELSE SortByAnswerAndRank([p \in DOMAIN new_answers |->
                    NormalizeAnswerForComparison(new_answers[p])])
             # SortByAnswerAndRank([p \in DOMAIN existing_answers |->
                    NormalizeAnswerForComparison(existing_answers[p])])

\* the branch of the loop of _categorize_questions_for_submission a local
\* record takes
ClassifyWithoutComparison(q, existing) ==
    IF ExistingLookup(existing, QuestionKey(q)) # 0 THEN "changed" ELSE "new"
Classify(q, existing) ==
    LET j == ExistingLookup(existing, QuestionKey(q))
    IN  IF j # 0
        THEN IF AnswersHaveChanged(q, existing[j]) THEN "changed" ELSE "unchanged"
        ELSE "new"

\* question['_existing_id'] = existing_question.get('_id')
WithExistingId(q, existing) ==
    LET id == existing[ExistingLookup(existing, QuestionKey(q))]._id
    IN  [f \in DOMAIN q \cup {"_existing_id"} |->
            IF f = "_existing_id" THEN id ELSE q[f]]

\* the three lists _categorize_questions_for_submission returns
NewOrUnchangedQuestionsOf(final, existing) ==
    SelectSeq(final, LAMBDA q : Classify(q, existing) \in {"new", "unchanged"})
NewQuestionsOf(final, existing) ==
    SelectSeq(final, LAMBDA q : Classify(q, existing) = "new")
UpdatedOrUnchangedQuestionsOf(final, existing) ==
    LET found == SelectSeq(final, LAMBDA q : Classify(q, existing) # "new")
    IN  [p \in DOMAIN found |-> WithExistingId(found[p], existing)]
UpdatedQuestionsOf(final, existing) ==
    LET changed == SelectSeq(final, LAMBDA q : Classify(q, existing) = "changed")
    IN  [p \in DOMAIN changed |-> WithExistingId(changed[p], existing)]
UnchangedQuestionsOf(final, existing) ==
    SelectSeq(final, LAMBDA q : Classify(q, existing) = "unchanged")

(***************************************************************************)
(* Inputs of the reconciliation engine                                     *)
(***************************************************************************)
MaxLocal == 2
MaxRemote == 2

\* answer lists of Final Question Records: three correct, ranked, scored
\* answers with trimmed texts
LocalAnswers ==
    <<[answer |-> <<"a">>, responseCount |-> 10, isCorrect |-> TRUE,
       rank |-> 1, score |-> 100],
      [answer |-> <<"b">>, responseCount |-> 7, isCorrect |-> TRUE,
       rank |-> 2, score |-> 80],
      [answer |-> <<"c">>, responseCount |-> 7, isCorrect |-> TRUE,
       rank |-> 3, score |-> 60]>>

\* the same answers after one more response to the third
LocalAnswersMoved ==
    [LocalAnswers EXCEPT ![3] = [@ EXCEPT !.responseCount = 8]]

\* the same answers as the remote store may hold them: another order, other
\* letter case and padding
RemoteAnswersReordered ==
    <<[LocalAnswers[2] EXCEPT !.answer = <<"B", " ">>], LocalAnswers[1],
      LocalAnswers[3]>>

\* a remote record with fewer answers
RemoteAnswersShort == SubSeq(LocalAnswers, 1, 2)

FinalRecord(text, as) ==
    FinalQuestion(QuestionWith("", text, <<"I", "n", "p", "u", "t">>, <<>>), as)

\* prepared records: one without question text, one whose text no remote
\* record has, and two states of a question the remote collection may hold
LocalRecords ==
    {FinalRecord(<<>>, LocalAnswers),
     FinalRecord(<<"r">>, LocalAnswers),
     FinalRecord(<<"Q", " ">>, LocalAnswers),
     FinalRecord(<<"Q", " ">>, LocalAnswersMoved)}

RemoteTemplates ==
    {FinalRecord(<<" ">>, LocalAnswers),
     FinalRecord(<<"q">>, LocalAnswers),
     FinalRecord(<<"q">>, RemoteAnswersReordered),
     FinalRecord(<<"q">>, RemoteAnswersShort)}

\* the store gives every record of the final collection an identifier (_id),
\* here its position in the collection
WithRemoteIds(rs) ==
    [p \in 1..Len(rs) |->
        [f \in DOMAIN rs[p] \cup {"_id"} |->
            IF f = "_id" THEN p ELSE rs[p][f]]]

LocalLists == SeqsUpTo(LocalRecords, MaxLocal)
RemoteLists == {WithRemoteIds(rs) : rs \in SeqsUpTo(RemoteTemplates, MaxRemote)}

(***************************************************************************)
(* Specification of the reconciliation engine                              *)
(***************************************************************************)
InitCat ==
    /\ pc = "categorize"
    /\ final_questions \in LocalLists
    /\ existing_final_questions \in RemoteLists
    /\ new_questions = <<>>
    /\ updated_questions = <<>>
    /\ unchanged_questions = <<>>
    /\ question = NoQuestion
    /\ should_include = FALSE
    /\ final_answers = <<>>
    /\ questions = <<>>
    /\ RankIdle
    /\ CmpIdle
    /\ SubIdle
    /\ RunIdle

\* _categorize_questions_for_submission
CategorizeQuestionsForSubmission ==
    /\ pc = "categorize"
    /\ new_questions' = NewQuestionsOf(final_questions, existing_final_questions)
    /\ updated_questions' = UpdatedQuestionsOf(final_questions, existing_final_questions)
    /\ unchanged_questions' = UnchangedQuestionsOf(final_questions, existing_final_questions)
    /\ pc' = "categorized"
    /\ UNCHANGED <<final_questions, existing_final_questions, question,
                   should_include, final_answers, questions, rankVars,
                   cmpVars, subVars, runVars>>

NextCat == CategorizeQuestionsForSubmission

SpecCat == InitCat /\ [][NextCat]_vars

(***************************************************************************)
(* Properties of the reconciliation engine                                 *)
(***************************************************************************)
\* a record of the changed bucket without the identifier attached to it
WithoutExistingId(u) == [f \in DOMAIN u \ {"_existing_id"} |-> u[f]]

Occurrences(list, r) == Cardinality({i \in DOMAIN list : list[i] = r})

InNew(r) == r \in Range(new_questions)
InChanged(r) == \E i \in DOMAIN updated_questions :
                    WithoutExistingId(updated_questions[i]) = r
InUnchanged(r) == r \in Range(unchanged_questions)

\* C9 (buckets partition the local records): every local record is in
\* exactly one of new, changed, unchanged, as often as it occurs locally, and
\* the three sizes sum to the number of local records.
C9_BucketsPartition ==
    pc = "categorized" =>
        /\ Len(new_questions) + Len(updated_questions) + Len(unchanged_questions)
                = Len(final_questions)
        /\ \A i \in DOMAIN final_questions :
                LET r == final_questions[i]
                IN  /\ InNew(r) \/ InChanged(r) \/ InUnchanged(r)
                    /\ ~(InNew(r) /\ InChanged(r))
                    /\ ~(InNew(r) /\ InUnchanged(r))
                    /\ ~(InChanged(r) /\ InUnchanged(r))
                    /\ Occurrences(final_questions, r)
                         = Occurrences(new_questions, r)
                           + Occurrences([k \in DOMAIN updated_questions |->
                                WithoutExistingId(updated_questions[k])], r)
                           + Occurrences(unchanged_questions, r)

\* all three buckets used in one categorization
C9_Witness ==
    /\ pc = "categorized"
    /\ Len(final_questions) = 2
    /\ Len(new_questions) = 1
    /\ Len(updated_questions) + Len(unchanged_questions) = 1
    /\ Len(existing_final_questions) = 2

\* the trimmed lower-cased question text
Trimmed(q) == Lower(Strip(q.question))

\* the remote records that share the trimmed lower-cased text of r
SameText(r) ==
    {j \in DOMAIN existing_final_questions :
        Trimmed(existing_final_questions[j]) = Trimmed(r)}

\* C10, as claimed: a local record is new exactly when no remote record has
\* the same trimmed lower-cased question text.
C10_NewIffNoSameText ==
    pc = "categorized" =>
        \A i \in DOMAIN final_questions :
            InNew(final_questions[i]) <=> SameText(final_questions[i]) = {}

\* C10, amended: a local record is new exactly when its trimmed lower-cased
\* question text is empty or no remote record has the same one; otherwise it
\* is matched with the last remote record of that text, is unchanged if its
\* answers are normalised-equal to that record's and changed if not, and a
\* changed record carries that record's identifier.
C10_Classification ==
    pc = "categorized" =>
        /\ \A i \in DOMAIN final_questions :
                LET r == final_questions[i]
                    M == SameText(r)
                IN  /\ InNew(r) <=> (Trimmed(r) = <<>> \/ M = {})
                    /\ ~InNew(r) =>
                            LET m == existing_final_questions[
                                        CHOOSE j \in M : \A h \in M : j >= h]
                            IN  /\ InUnchanged(r) <=> ~AnswersHaveChanged(r, m)
                                /\ InChanged(r) <=> AnswersHaveChanged(r, m)
        /\ \A k \in DOMAIN updated_questions :
                LET u == updated_questions[k]
                    M == SameText(u)
                IN  /\ M # {}
                    /\ u._existing_id =
                            existing_final_questions[
                                CHOOSE j \in M : \A h \in M : j >= h]._id

\* a changed record matched, through letter case and padding, with the later
\* of two remote records of the same text
C10_Witness ==
    /\ pc = "categorized"
    /\ Len(updated_questions) = 1
    /\ updated_questions[1]._existing_id = 2
    /\ Cardinality(SameText(updated_questions[1])) = 2
    /\ updated_questions[1].question # existing_final_questions[2].question
    /\ ~AnswersHaveChanged(updated_questions[1], existing_final_questions[1])
    /\ Len(new_questions) = 1

(***************************************************************************)
(* Comparison of two answer lists (_answers_have_changed)                  *)
(***************************************************************************)
MaxCompared == 3

\* answers of a record: two that share text and rank and differ in their
\* response count, and a third
ComparedAnswers ==
    {[answer |-> <<"a">>, responseCount |-> 10, isCorrect |-> TRUE,
      rank |-> 1, score |-> 100],
     [answer |-> <<"a">>, responseCount |-> 7, isCorrect |-> TRUE,
      rank |-> 1, score |-> 100],
     [answer |-> <<"b">>, responseCount |-> 7, isCorrect |-> TRUE,
      rank |-> 2, score |-> 80]}

\* the same text in upper case between blanks
UpperChar(c) ==
    IF \E i \in DOMAIN LowerCase : LowerCase[i] = c
    THEN UpperCase[CHOOSE i \in DOMAIN LowerCase : LowerCase[i] = c]
    ELSE c
Padded(t) == <<" ">> \o [i \in DOMAIN t |-> UpperChar(t[i])] \o <<" ">>

\* the answers of as in the order order, their texts in another letter case
\* and padded when recased
Rearranged(as, order, recased) ==
    [p \in DOMAIN as |->
        IF recased THEN [as[order[p]] EXCEPT !.answer = Padded(@)]
        ELSE as[order[p]]]

\* the lists that differ from as only in the ordering of the answers or in
\* the letter case and surrounding whitespace of their texts
Rearrangements(as) ==
    {Rearranged(as, order, recased) :
        order \in Permutations(DOMAIN as), recased \in BOOLEAN}

InitCmp ==
    /\ pc = "compare"
    /\ \E as \in SeqsUpTo(ComparedAnswers, MaxCompared) :
        \E bs \in Rearrangements(as) :
            /\ compared_new = FinalRecord(<<"q">>, as)
            /\ compared_existing = FinalRecord(<<"q">>, bs)
    /\ has_changed = FALSE
    /\ RankIdle
    /\ EligIdle
    /\ CatIdle
    /\ SubIdle
    /\ RunIdle

\* _answers_have_changed(new_question, existing_question)
CompareAnswers ==
    /\ pc = "compare"
    /\ has_changed' = AnswersHaveChanged(compared_new, compared_existing)
    /\ pc' = "compared"
    /\ UNCHANGED <<compared_new, compared_existing, rankVars, eligVars,
                   catVars, subVars, runVars>>

NextCmp == CompareAnswers

SpecCmp == InitCmp /\ [][NextCmp]_vars

\* C11 (normalisation symmetry): two answer lists that differ only in the
\* ordering of the answers or in the letter case and surrounding whitespace
\* of the answer texts compare as not changed.
C11_RearrangedUnchanged ==
    pc = "compared" => ~has_changed

(***************************************************************************)
(* Final submission (_handle_final_submission_with_updates)                *)
(***************************************************************************)
MaxRuns == 2

\* The remote store. The final collection keeps the fields of a Final
\* Question Record under an identifier of its own; a created record is
\* appended, an updated record replaces the one stored under the identifier.
FinalFields ==
    {"question", "questionType", "questionCategory", "questionLevel",
     "timesSkipped", "timesAnswered", "answers"}

StoredRecord(q, id) ==
    [f \in FinalFields \cup {"_id"} |-> IF f = "_id" THEN id ELSE q[f]]

CreateFinal(remote, records) ==
    remote \o [p \in 1..Len(records) |-> StoredRecord(records[p], Len(remote) + p)]

UpdateFinal(remote, id, q) ==
    [j \in DOMAIN remote |->
        IF remote[j]._id = id THEN StoredRecord(q, id) ELSE remote[j]]

\* final_payload = {"questions": new_questions}
FinalPayloadEmpty(records) == [questions |-> <<>>]
FinalPayloadFirstOnly(records) == [questions |-> SubSeq(records, 1, 1)]
FinalPayload(records) == [questions |-> records]

\* what a request can come to: a success response, another response, an
\* exception raised by the API handler
Outcomes == {"ok", "rejected", "raised"}

\* one entry of the trace of calls made to the remote store
Call(op, sent, outcome) == [op |-> op, sent |-> sent, outcome |-> outcome]

\* the dict _submit_new_final_questions returns
SubmitNewResult(records, outcome) ==
    IF outcome = "ok"
    THEN [submitted_count |-> Len(records), success |-> TRUE,
          message |-> "Submitted new questions"]
    ELSE [submitted_count |-> 0, success |-> FALSE, message |-> "rejected"]

\* the dict of the except branch of _handle_final_submission_with_updates
SubmissionErrorResult(final) ==
    [submitted_count |-> 0, total_processed |-> Len(final), success |-> FALSE,
     error |-> "raised"]

\* overall_success = total_submitted > 0 or len(unchanged_questions) > 0
OverallSuccessProgressOnly(total, unchanged) == total > 0
OverallSuccess(total, unchanged) == total > 0 \/ Len(unchanged) > 0

\* the dict _handle_final_submission_with_updates returns at its end
SubmissionResult(total, final, new, updated, unchanged) ==
    [submitted_count |-> total,
     total_processed |-> Len(final),
     success |-> OverallSuccess(total, unchanged),
     message |-> IF total > 0 THEN "submitted" ELSE "No changes detected",
     details |-> [new_submitted |-> Len(new), updated |-> Len(updated),
                  unchanged |-> Len(unchanged)]]

\* if not question_id
Falsy(id) == id = 0

(***************************************************************************)
(* Inputs of the final submission                                          *)
(***************************************************************************)
\* a batch with a record of each kind against RemoteBlankAndQ
ThreeKinds ==
    <<FinalRecord(<<"r">>, LocalAnswers), FinalRecord(<<"Q", " ">>, LocalAnswers),
      FinalRecord(<<"Q", " ">>, LocalAnswersMoved)>>

\* submit_final_questions hands over a non-empty list of prepared records
SubmitLocalLists == (LocalLists \ {<<>>}) \cup {ThreeKinds}

RemoteBlankAndQ ==
    WithRemoteIds(<<FinalRecord(<<" ">>, LocalAnswers),
                    FinalRecord(<<"q">>, LocalAnswers)>>)

\* states of the remote final collection: empty, one record stored with
\* another order and letter case, two records with fewer answers, a record
\* without text next to one of a local question
SubmitRemotes ==
    {<<>>,
     WithRemoteIds(<<FinalRecord(<<"q">>, RemoteAnswersReordered)>>),
     WithRemoteIds(<<FinalRecord(<<"q">>, RemoteAnswersShort),
                     FinalRecord(<<"r">>, RemoteAnswersShort)>>),
     RemoteBlankAndQ}

(***************************************************************************)
(* Specification of the final submission                                   *)
(***************************************************************************)
\* the handler's own names before it runs
SubmissionReset ==
    /\ existing_final_questions = <<>>
    /\ existing_retrieved = FALSE
    /\ new_questions = <<>>
    /\ updated_questions = <<>>
    /\ unchanged_questions = <<>>
    /\ calls = <<>>
    /\ total_submitted = 0
    /\ successful_updates = 0
    /\ update_index = 0
    /\ final_result = NoDict

InitSubmit ==
    /\ pc = "get_existing"
    /\ final_questions \in SubmitLocalLists
    /\ remote_final \in {WithRemoteIds(final_questions)} \cup SubmitRemotes
    /\ runs = 1
    /\ SubmissionReset
    /\ question = NoQuestion
    /\ should_include = FALSE
    /\ final_answers = <<>>
    /\ questions = <<>>
    /\ RankIdle
    /\ CmpIdle
    /\ RunIdle

\* existing_final_questions = self._get_existing_final_questions()
GetExistingFinalQuestions ==
    /\ pc = "get_existing"
    /\ \E outcome \in Outcomes :
        /\ calls' = Append(calls, Call("fetchFinal", <<>>, outcome))
        /\ existing_retrieved' = (outcome = "ok")
        /\ existing_final_questions' = IF outcome = "ok" THEN remote_final ELSE <<>>
        /\ pc' = IF outcome = "ok" THEN "categorize" ELSE "submit_all"
    /\ UNCHANGED <<new_questions, updated_questions, unchanged_questions,
                   remote_final, total_submitted, successful_updates,
                   update_index, final_result, runs, rankVars, eligVars,
                   cmpVars, runVars>>

\* existing_final_questions is None:
\* return self._submit_new_final_questions(final_questions)
SubmitAllAsNew ==
    /\ pc = "submit_all"
    /\ \E outcome \in Outcomes :
        LET payload == FinalPayload(final_questions)
        IN  /\ calls' = Append(calls, Call("create", payload.questions, outcome))
            /\ remote_final' = IF outcome = "ok"
                               THEN CreateFinal(remote_final, payload.questions)
                               ELSE remote_final
            /\ final_result' = IF outcome = "raised"
                               THEN SubmissionErrorResult(final_questions)
                               ELSE SubmitNewResult(payload.questions, outcome)
    /\ pc' = "submitted"
    /\ UNCHANGED <<total_submitted, successful_updates, update_index, runs,
                   existing_retrieved, rankVars, eligVars, catVars, cmpVars,
                   runVars>>

\* if new_questions: new_result = self._submit_new_final_questions(new_questions)
SubmitNewFinalQuestions ==
    /\ pc = "categorized"
    /\ IF new_questions = <<>>
       THEN /\ pc' = "updating"
            /\ update_index' = 1
            /\ UNCHANGED <<calls, remote_final, total_submitted, final_result>>
       ELSE \E outcome \in Outcomes :
            LET payload == FinalPayload(new_questions)
                new_result == SubmitNewResult(payload.questions, outcome)
            IN  /\ calls' = Append(calls, Call("create", payload.questions, outcome))
                /\ remote_final' = IF outcome = "ok"
                                   THEN CreateFinal(remote_final, payload.questions)
                                   ELSE remote_final
                /\ IF outcome = "raised"
                   THEN /\ final_result' = SubmissionErrorResult(final_questions)
                        /\ pc' = "submitted"
                        /\ UNCHANGED <<total_submitted, update_index>>
                   ELSE /\ total_submitted' =
                                IF new_result.success
                                THEN total_submitted + new_result.submitted_count
                                ELSE total_submitted
                        /\ pc' = "updating"
                        /\ update_index' = 1
                        /\ UNCHANGED final_result
    /\ UNCHANGED <<successful_updates, runs, existing_retrieved, rankVars,
                   eligVars, catVars, cmpVars, runVars>>

\* one turn of the loop of _update_existing_final_questions. The requests
\* _update_single_final_question tries in turn are one update whose outcome
\* is whether any of them succeeded; it never raises.
UpdateSingleFinalQuestion ==
    /\ pc = "updating"
    /\ update_index <= Len(updated_questions)
    /\ LET q == updated_questions[update_index]
           question_id == q._existing_id
       IN  IF Falsy(question_id)
           THEN UNCHANGED <<calls, remote_final, successful_updates>>
           ELSE \E outcome \in {"ok", "rejected"} :
                LET update_payload == [questions |-> <<q>>]
                IN  /\ calls' = Append(calls,
                            Call("update", update_payload.questions, outcome))
                    /\ remote_final' = IF outcome = "ok"
                                       THEN UpdateFinal(remote_final, question_id, q)
                                       ELSE remote_final
                    /\ successful_updates' = IF outcome = "ok"
                                             THEN successful_updates + 1
                                             ELSE successful_updates
    /\ update_index' = update_index + 1
    /\ UNCHANGED <<pc, total_submitted, final_result, runs, existing_retrieved,
                   rankVars, eligVars, catVars, cmpVars, runVars>>

\* the end of _handle_final_submission_with_updates: the result of the
\* updates is added and the result dict is built
FinishSubmission ==
    /\ pc = "updating"
    /\ update_index > Len(updated_questions)
    /\ LET total == IF updated_questions # <<>> /\ successful_updates > 0
                    THEN total_submitted + successful_updates
                    ELSE total_submitted
       IN  /\ total_submitted' = total
           /\ final_result' = SubmissionResult(total, final_questions,
                    new_questions, updated_questions, unchanged_questions)
    /\ pc' = "submitted"
    /\ UNCHANGED <<calls, remote_final, successful_updates, update_index, runs,
                   existing_retrieved, rankVars, eligVars, catVars, cmpVars,
                   runVars>>

\* submit_final_questions is called again with the same questions
SubmitAgain ==
    /\ pc = "submitted"
    /\ runs < MaxRuns
    /\ runs' = runs + 1
    /\ pc' = "get_existing"
    /\ existing_final_questions' = <<>>
    /\ existing_retrieved' = FALSE
    /\ new_questions' = <<>>
    /\ updated_questions' = <<>>
    /\ unchanged_questions' = <<>>
    /\ calls' = <<>>
    /\ total_submitted' = 0
    /\ successful_updates' = 0
    /\ update_index' = 0
    /\ final_result' = NoDict
    /\ UNCHANGED <<remote_final, rankVars, eligVars, cmpVars, runVars>>

NextSubmit ==
    \/ GetExistingFinalQuestions
    \/ SubmitAllAsNew
    \/ CategorizeQuestionsForSubmission
    \/ SubmitNewFinalQuestions
    \/ UpdateSingleFinalQuestion
    \/ FinishSubmission
    \/ SubmitAgain

SpecSubmit == InitSubmit /\ [][NextSubmit]_vars

(***************************************************************************)
(* Properties of the final submission                                      *)
(***************************************************************************)
\* the local records are the remote records, one by one
Identical(local, remote) ==
    /\ Len(local) = Len(remote)
    /\ \A i \in DOMAIN local : [f \in FinalFields |-> remote[i][f]] = local[i]

\* the create and update calls made so far
WriteCalls == SelectSeq(calls, LAMBDA c : c.op \in {"create", "update"})

\* every record has a question text of its own once trimmed and lower-cased
DistinctTexts(local) ==
    /\ \A i \in DOMAIN local : Trimmed(local[i]) # <<>>
    /\ \A i, j \in DOMAIN local : i # j => Trimmed(local[i]) # Trimmed(local[j])

\* C12, as claimed: when the local final set and the remote final set are
\* identical, every local record is classified unchanged, on a first and on a
\* repeated run, and no create call and no update call is made.
C12_IdenticalUnchanged ==
    (pc = "submitted" /\ existing_retrieved
        /\ Identical(final_questions, existing_final_questions)) =>
            /\ unchanged_questions = final_questions
            /\ WriteCalls = <<>>

\* C12, amended: when the local final set and the remote final set are
\* identical and the local records have non-empty, pairwise distinct trimmed
\* lower-cased question texts, every local record is classified unchanged, on
\* a first and on a repeated run, and no create or update call is made.
C12_IdenticalDistinctUnchanged ==
    (pc = "submitted" /\ existing_retrieved
        /\ Identical(final_questions, existing_final_questions)
        /\ DistinctTexts(final_questions)) =>
            /\ unchanged_questions = final_questions
            /\ WriteCalls = <<>>

\* a repeated run over two records the remote collection already holds
C12_Witness ==
    /\ pc = "submitted"
    /\ runs = 2
    /\ existing_retrieved
    /\ Identical(final_questions, existing_final_questions)
    /\ DistinctTexts(final_questions)
    /\ Len(final_questions) = 2
    /\ unchanged_questions = final_questions
    /\ final_result.success

\* the records a call carried, without the identifier attached to a changed
\* record
Carried(c) == {WithoutExistingId(c.sent[p]) : p \in DOMAIN c.sent}

\* C14 (each call carries its own bucket): when the existing final
\* collection could be retrieved, every record sent in the create call is one
\* classified new, every record sent in an update call is one classified
\* changed, and a record classified unchanged is sent in no create or update
\* call.
C14_CallsCarryTheirBucket ==
    existing_retrieved =>
        /\ \A k \in DOMAIN calls :
            /\ calls[k].op = "create" =>
                \A r \in Carried(calls[k]) :
                    Classify(r, existing_final_questions) = "new"
            /\ calls[k].op = "update" =>
                \A r \in Carried(calls[k]) :
                    Classify(r, existing_final_questions) = "changed"
        /\ \A i \in DOMAIN final_questions :
            Classify(final_questions[i], existing_final_questions) = "unchanged" =>
                \A k \in DOMAIN WriteCalls :
                    final_questions[i] \notin Carried(WriteCalls[k])

\* a submission that made a create call and an update call and left a record
\* unsent
C14_Witness ==
    /\ pc = "submitted"
    /\ existing_retrieved
    /\ \E k \in DOMAIN calls : calls[k].op = "create" /\ Len(calls[k].sent) = 1
    /\ \E k \in DOMAIN calls : calls[k].op = "update"
    /\ Len(unchanged_questions) = 1
    /\ Len(final_questions) = 3

\* the update calls made so far
UpdateCalls == SelectSeq(calls, LAMBDA c : c.op = "update")

\* C15 (every changed record is updated once): once the submission is over,
\* an update was attempted for every record classified changed, one update
\* per changed record, whether or not the update of another record failed.
C15_EveryChangedUpdatedOnce ==
    (pc = "submitted" /\ existing_retrieved) =>
        [k \in DOMAIN UpdateCalls |-> UpdateCalls[k].sent[1]] = updated_questions

\* C18 (null collection means all new): when the fetch of the existing final
\* collection yields no list, every prepared record is treated as new: all of
\* them are sent in one create call and no update call is made.
C18_NullAllCreated ==
    (pc = "submitted" /\ ~existing_retrieved) =>
        /\ Len(calls) = 2
        /\ calls[1].op = "fetchFinal" /\ calls[1].outcome # "ok"
        /\ calls[2].op = "create" /\ calls[2].sent = final_questions
        /\ new_questions = <<>> /\ updated_questions = <<>>
        /\ unchanged_questions = <<>>

\* two records the remote collection already holds are created once more
\* because the collection could not be fetched
C18_Witness ==
    /\ pc = "submitted"
    /\ ~existing_retrieved
    /\ Len(final_questions) = 2
    /\ calls[2].outcome = "ok"
    /\ Len(remote_final) = 4
    /\ Identical(final_questions, SubSeq(remote_final, 1, 2))
    /\ final_result.submitted_count = 2

\* the records created and the records updated in this submission
CreatedCount ==
    Cardinality({k \in DOMAIN calls :
        calls[k].op = "create" /\ calls[k].outcome = "ok"})
UpdatedCount ==
    Cardinality({k \in DOMAIN calls :
        calls[k].op = "update" /\ calls[k].outcome = "ok"})

\* C20, as claimed: the success flag of the final submission is true exactly
\* when progress was made, that is when at least one new record was created
\* or at least one changed record was updated.
C20_SuccessIffProgress ==
    pc = "submitted" =>
        (final_result.success <=> (CreatedCount > 0 \/ UpdatedCount > 0))

\* C20, amended: the success flag is true exactly when at least one new
\* record was created or at least one changed record was updated, or when
\* no create call raised and at least one record was classified unchanged.
\* It does not require every record to succeed.
C20_SuccessIffProgressOrUnchanged ==
    pc = "submitted" =>
        (final_result.success <=>
            \/ CreatedCount > 0
            \/ UpdatedCount > 0
            \/ /\ \A k \in DOMAIN calls : calls[k].outcome # "raised"
               /\ unchanged_questions # <<>>)

\* success although one of two updates failed and no record is unchanged
C20_Witness ==
    /\ pc = "submitted"
    /\ final_result.success
    /\ CreatedCount = 0
    /\ UpdatedCount = 1
    /\ Len(UpdateCalls) = 2
    /\ unchanged_questions = <<>>

(***************************************************************************)
(* The run (RankingService.process_all_questions_with_final_submission)    *)
(***************************************************************************)
\* Config.SCORING_VALUES
ConfiguredScoringValues == <<100, 80, 60>>

RECURSIVE SumOf(_)
SumOf(ns) == IF ns = <<>> THEN 0 ELSE Head(ns) + SumOf(Tail(ns))

\* DataValidator.validate_question: the structural check of a question, here
\* the presence of its required identifier
ValidateQuestion(q) == q.questionID # ""

\* QuestionProcessor._should_process_question
ShouldProcessQuestionWithAnswers(q) == q.answers # <<>>
ShouldProcessQuestion(q) ==
    /\ q.answers # <<>>
    /\ \E p \in DOMAIN q.answers : q.answers[p].isCorrect

\* QuestionProcessor.process_question
ProcessQuestion(q, sv) ==
    IF ~ShouldProcessQuestion(q)
    THEN [question |-> q, answers_ranked |-> 0, answers_scored |-> 0]
    ELSE LET r == RankAnswersOf(q.answers, sv)
         IN  [question |-> [q EXCEPT !.answers = r.list],
              answers_ranked |-> r.ranked, answers_scored |-> r.scored]

\* _process_single_question_in_batch
ProcessSingleQuestionUnvalidated(q, sv) ==
    IF q.answers = <<>>
    THEN [processed |-> FALSE, validation_failed |-> FALSE]
    ELSE IF ~\E p \in DOMAIN q.answers : q.answers[p].isCorrect
    THEN [processed |-> FALSE, validation_failed |-> FALSE]
    ELSE LET r == ProcessQuestion(q, sv)
         IN  [processed |-> TRUE, validation_failed |-> FALSE,
              question |-> r.question,
              answers_ranked |-> r.answers_ranked,
              answers_scored |-> r.answers_scored]
ProcessSingleQuestionInBatch(q, sv) ==
    IF q.answers = <<>>
    THEN [processed |-> FALSE, validation_failed |-> FALSE]
    ELSE IF ~\E p \in DOMAIN q.answers : q.answers[p].isCorrect
    THEN [processed |-> FALSE, validation_failed |-> FALSE]
    ELSE LET r == ProcessQuestion(q, sv)
         IN  IF ~ValidateQuestion(r.question)
             THEN [processed |-> FALSE, validation_failed |-> TRUE]
             ELSE [processed |-> TRUE, validation_failed |-> FALSE,
                   question |-> r.question,
                   answers_ranked |-> r.answers_ranked,
                   answers_scored |-> r.answers_scored]

\* _process_questions_batch
ProcessQuestionsBatchOf(qs, sv) ==
    LET results == [p \in DOMAIN qs |-> ProcessSingleQuestionInBatch(qs[p], sv)]
        done == SelectSeq(results, LAMBDA r : r.processed)
    IN  [processed_questions |-> [p \in DOMAIN done |-> done[p].question],
         processed_count |-> Len(done),
         skipped_count |-> Cardinality({p \in DOMAIN results :
                ~results[p].processed /\ ~results[p].validation_failed}),
         validation_failed |-> Cardinality({p \in DOMAIN results :
                ~results[p].processed /\ results[p].validation_failed}),
         total_answers_ranked |-> SumOf([p \in DOMAIN done |-> done[p].answers_ranked]),
         total_answers_scored |-> SumOf([p \in DOMAIN done |-> done[p].answers_scored])]

\* _create_empty_result
CreateEmptyResult ==
    [total_questions |-> 0, processed_count |-> 0, skipped_count |-> 0,
     updated_count |-> 0, failed_count |-> 0, answers_ranked |-> 0,
     answers_scored |-> 0]

\* _combine_results
CombineResultsWithoutSkipped(processing, update, total_questions) ==
    [total_questions |-> total_questions,
     processed_count |-> processing.processed_count,
     skipped_count |-> 0,
     updated_count |-> update.updated_count,
     failed_count |-> update.failed_count,
     answers_ranked |-> processing.total_answers_ranked,
     answers_scored |-> processing.total_answers_scored,
     validation_failed |-> processing.validation_failed]
CombineResults(processing, update, total_questions) ==
    [total_questions |-> total_questions,
     processed_count |-> processing.processed_count,
     skipped_count |-> processing.skipped_count,
     updated_count |-> update.updated_count,
     failed_count |-> update.failed_count,
     answers_ranked |-> processing.total_answers_ranked,
     answers_scored |-> processing.total_answers_scored,
     validation_failed |-> processing.validation_failed]

\* _validate_questions_for_bulk_update: the questions that pass
ValidForBulkUpdate(qs) ==
    SelectSeq(qs, LAMBDA q :
        q.questionID # "" /\ q.answers # <<>> /\ ValidateQuestion(q))

\* QuestionFormatter.format_for_api: what the bulk update sends of a question
FormatForApi(q) == [questionID |-> q.questionID, answers |-> q.answers]

\* _create_update_result
CreateUpdateResult(updated, failed, total) ==
    [updated_count |-> updated, failed_count |-> failed, total_processed |-> total]

\* the remote store after a successful bulk update: the answers sent replace
\* those of the question stored under the same identifier
BulkUpdate(stored, sent) ==
    [j \in DOMAIN stored |->
        IF \E p \in DOMAIN sent : sent[p].questionID = stored[j].questionID
        THEN [stored[j] EXCEPT !.answers =
                sent[CHOOSE p \in DOMAIN sent :
                        sent[p].questionID = stored[j].questionID].answers]
        ELSE stored[j]]

\* _validate_question_for_final_submission
ValidateQuestionNeedsFour(q) ==
    /\ Lower(q.questionType) = TypeInput
    /\ q.answers # <<>>
    /\ Len(QualifyingAnswers(q.answers)) >= 4
ValidateQuestionForFinalSubmission(q) ==
    /\ Lower(q.questionType) = TypeInput
    /\ q.answers # <<>>
    /\ Len(QualifyingAnswers(q.answers)) >= 3

\* get_final_submission_summary (the counts; by_type is only logged)
GetFinalSubmissionSummary(qs) ==
    LET inputs == {p \in DOMAIN qs : Lower(qs[p].questionType) = TypeInput}
        mcqs == {p \in DOMAIN qs : Lower(qs[p].questionType) = TypeMcq}
        ready == {p \in inputs : ValidateQuestionForFinalSubmission(qs[p])}
        correct_count(q) ==
            Cardinality({k \in DOMAIN q.answers :
                q.answers[k].isCorrect /\ q.answers[k].rank > 0})
    IN  [total_questions |-> Len(qs),
         total_input_questions |-> Cardinality(inputs),
         total_mcq_questions |-> Cardinality(mcqs),
         ready_for_final |-> Cardinality(ready),
         needs_more_answers |-> Cardinality({p \in inputs \ ready :
                correct_count(qs[p]) > 0 /\ correct_count(qs[p]) < 3}),
         non_eligible_questions |-> Len(qs) - Cardinality(inputs)]

\* if ranking_result["updated_count"] > 0
ShouldSubmitAlways(result) == TRUE
ShouldSubmitWhenProcessed(result) == result.processed_count > 0
ShouldSubmit(result) == result.updated_count > 0

\* dict.update
Updated(d, e) ==
    [k \in DOMAIN d \cup DOMAIN e |-> IF k \in DOMAIN e THEN e[k] ELSE d[k]]

\* dict.get(key, default)
Get(d, key, default) == IF key \in DOMAIN d THEN d[key] ELSE default

\* {}
EmptyDict == <<>>

\* the final-submission entries of the summary when nothing was persisted
NoSubmissionEntries ==
    [final_submitted_count |-> 0,
     final_submission_success |-> FALSE,
     final_submission_message |-> "No ranked questions to submit",
     final_ready_count |-> 0,
     final_needs_more_count |-> 0,
     final_submission_details |-> EmptyDict]

\* the final-submission entries of the summary after the analysis
SubmissionEntries(result, analysis) ==
    [final_submitted_count |-> result.submitted_count,
     final_submission_success |-> Get(result, "success", FALSE),
     final_submission_message |-> Get(result, "message", ""),
     final_ready_count |-> analysis.ready_for_final,
     final_needs_more_count |-> analysis.needs_more_answers,
     final_submission_details |-> Get(result, "details", EmptyDict)]

\* final_result when no Input question is ready
NotReadyResult(qs) ==
    [submitted_count |-> 0, total_processed |-> Len(qs), success |-> FALSE,
     message |-> "No Input questions met requirements for final submission"]

\* submit_final_questions: the result when no record was prepared
NothingPreparedResult(qs) ==
    [submitted_count |-> 0, total_processed |-> Len(qs), success |-> FALSE,
     message |-> "No questions with ranked correct answers found"]

(***************************************************************************)
(* Inputs of the run                                                       *)
(***************************************************************************)
Fetched(isCorrect, text, responseCount) ==
    [answer |-> text, isCorrect |-> isCorrect, responseCount |-> responseCount,
     rank |-> 0, score |-> 0]

InputTag == <<"I", "n", "p", "u", "t">>

\* four correct answers with response counts 10, 7, 7, 2
QuestionFour ==
    QuestionWith("q1", <<"Q", " ">>, InputTag,
        WithIds(<<Fetched(TRUE, <<"b">>, 7), Fetched(TRUE, <<"a">>, 10),
                  Fetched(TRUE, <<"c">>, 7), Fetched(TRUE, <<"d">>, 2)>>))

\* another question with the text of QuestionFour in another letter case
QuestionSameText ==
    QuestionWith("q2", <<"q">>, InputTag,
        WithIds(<<Fetched(TRUE, <<"x">>, 5), Fetched(TRUE, <<"y">>, 4),
                  Fetched(TRUE, <<"z">>, 3)>>))

\* a question with a text of its own
QuestionOther ==
    QuestionWith("q3", <<"r">>, InputTag,
        WithIds(<<Fetched(TRUE, <<"x">>, 5), Fetched(TRUE, <<"y">>, 4),
                  Fetched(FALSE, <<"w">>, 9), Fetched(TRUE, <<"z">>, 3)>>))

\* a question whose text is blank
QuestionBlank ==
    QuestionWith("q4", <<" ">>, InputTag,
        WithIds(<<Fetched(TRUE, <<"x">>, 5), Fetched(TRUE, <<"y">>, 4),
                  Fetched(TRUE, <<"z">>, 3)>>))

\* an MCQ question
QuestionMcq ==
    QuestionWith("q5", <<"m">>, <<"M", "C", "Q">>,
        WithIds(<<Fetched(FALSE, <<"x">>, 5), Fetched(TRUE, <<"y">>, 4),
                  Fetched(FALSE, <<"z">>, 3), Fetched(FALSE, <<"w">>, 1)>>))

\* a question without its identifier
QuestionNoId ==
    QuestionWith("", <<"n">>, InputTag,
        WithIds(<<Fetched(TRUE, <<"x">>, 5), Fetched(TRUE, <<"y">>, 4),
                  Fetched(TRUE, <<"z">>, 3)>>))

\* a question without a correct answer
QuestionNoCorrect ==
    QuestionWith("q7", <<"s">>, InputTag, WithIds(<<Fetched(FALSE, <<"x">>, 5)>>))

\* a question with two correct answers
QuestionTwo ==
    QuestionWith("q8", <<"t">>, InputTag,
        WithIds(<<Fetched(TRUE, <<"x">>, 5), Fetched(TRUE, <<"y">>, 4)>>))

\* states of the question store
StoreStates ==
    {<<>>,
     <<QuestionFour>>,
     <<QuestionFour, QuestionMcq>>,
     <<QuestionFour, QuestionSameText>>,
     <<QuestionOther, QuestionFour>>,
     <<QuestionOther, QuestionSameText>>,
     <<QuestionBlank>>,
     <<QuestionNoId>>,
     <<QuestionNoCorrect>>,
     <<QuestionTwo, QuestionNoId>>,
     <<QuestionNoCorrect, QuestionNoId, QuestionTwo>>,
     <<QuestionNoCorrect, QuestionOther>>}

\* states of the final collection: empty, or the record of QuestionFour as a
\* run prepares it
RunRemotes ==
    {<<>>, WithRemoteIds(<<FinalRecord(<<"q">>, LocalAnswers)>>)}

\* what a fetch of the questions can come to: a list, the exception of an
\* empty database, another exception
FetchOutcomes == {"ok", "not_found", "raised"}

(***************************************************************************)
(* Specification of the run                                                *)
(***************************************************************************)
InitRun ==
    /\ pc = "fetch"
    /\ stored_questions \in StoreStates
    /\ remote_final \in RunRemotes
    /\ runs = 1
    /\ earlier_calls = <<>>
    /\ scoring_values = ConfiguredScoringValues
    /\ fetched_questions = <<>>
    /\ processing_result = NoDict
    /\ ranking_result = NoDict
    /\ final_summary = NoDict
    /\ summary = NoDict
    /\ SubmissionReset
    /\ EligIdle
    /\ CmpIdle
    /\ answers = <<>>
    /\ all_answers = <<>>
    /\ answers_ranked = 0
    /\ answers_scored = 0

\* process_all_questions up to the bulk update: the fetch and the ranking of
\* the batch; an empty fetch ends the run with the empty result
FetchQuestions ==
    /\ pc = "fetch"
    /\ \E outcome \in FetchOutcomes :
        /\ calls' = Append(calls, Call("fetch", <<>>, outcome))
        /\ IF outcome = "raised"
           THEN /\ pc' = "aborted"
                /\ UNCHANGED <<fetched_questions, processing_result,
                               ranking_result, summary>>
           ELSE LET fetched == IF outcome = "ok" THEN stored_questions ELSE <<>>
                IN  /\ fetched_questions' = fetched
                    /\ IF fetched = <<>>
                       THEN /\ ranking_result' = CreateEmptyResult
                            /\ summary' = Updated(CreateEmptyResult, NoSubmissionEntries)
                            /\ pc' = "done"
                            /\ UNCHANGED processing_result
                       ELSE /\ processing_result' =
                                    ProcessQuestionsBatchOf(fetched, scoring_values)
                            /\ pc' = "persist"
                            /\ UNCHANGED <<ranking_result, summary>>
    /\ UNCHANGED <<stored_questions, final_summary, earlier_calls, remote_final,
                   existing_retrieved, total_submitted, successful_updates,
                   update_index, final_result, runs, rankVars, eligVars,
                   catVars, cmpVars>>

\* _update_processed_questions and the rest of process_all_questions; without
\* a persisted question the run ends here
UpdateProcessedQuestions ==
    /\ pc = "persist"
    /\ LET processed == processing_result.processed_questions
           valid == ValidForBulkUpdate(processed)
           sent == [p \in DOMAIN valid |-> FormatForApi(valid[p])]
       IN  \E outcome \in IF valid = <<>> THEN {"no call"} ELSE Outcomes :
            LET update_result ==
                    IF processed = <<>>
                    THEN [updated_count |-> 0, failed_count |-> 0]
                    ELSE IF valid = <<>>
                    THEN CreateUpdateResult(0, Len(processed), Len(processed))
                    ELSE IF outcome = "ok"
                    THEN CreateUpdateResult(Len(sent), 0, Len(processed))
                    ELSE CreateUpdateResult(0, Len(sent), Len(processed))
                combined == CombineResults(processing_result, update_result,
                                           Len(fetched_questions))
            IN  /\ calls' = IF valid = <<>> THEN calls
                            ELSE Append(calls, Call("bulk", sent, outcome))
                /\ stored_questions' = IF outcome = "ok"
                                       THEN BulkUpdate(stored_questions, sent)
                                       ELSE stored_questions
                /\ ranking_result' = combined
                /\ IF ShouldSubmit(combined)
                   THEN /\ pc' = "refetch"
                        /\ UNCHANGED summary
                   ELSE /\ summary' = Updated(combined, NoSubmissionEntries)
                        /\ pc' = "done"
    /\ UNCHANGED <<fetched_questions, processing_result, final_summary,
                   earlier_calls, remote_final, existing_retrieved,
                   total_submitted, successful_updates, update_index,
                   final_result, runs, rankVars, eligVars, catVars, cmpVars>>

\* updated_questions = self._fetch_questions(), the analysis and the start of
\* submit_final_questions
RefetchQuestions ==
    /\ pc = "refetch"
    /\ \E outcome \in FetchOutcomes :
        /\ calls' = Append(calls, Call("refetch", <<>>, outcome))
        /\ IF outcome = "raised"
           THEN /\ pc' = "aborted"
                /\ UNCHANGED <<questions, final_questions, final_summary,
                               final_result, summary>>
           ELSE LET refetched == IF outcome = "ok" THEN stored_questions ELSE <<>>
                    analysis == GetFinalSubmissionSummary(refetched)
                    prepared == PrepareQuestionsForFinalSubmission(refetched)
                IN  /\ questions' = refetched
                    /\ final_summary' = analysis
                    /\ IF analysis.ready_for_final > 0 /\ prepared # <<>>
                       THEN /\ final_questions' = prepared
                            /\ pc' = "get_existing"
                            /\ UNCHANGED <<final_result, summary>>
                       ELSE LET result == IF analysis.ready_for_final > 0
                                          THEN NothingPreparedResult(refetched)
                                          ELSE NotReadyResult(refetched)
                            IN  /\ final_result' = result
                                /\ summary' = Updated(ranking_result,
                                        SubmissionEntries(result, analysis))
                                /\ pc' = "done"
                                /\ UNCHANGED final_questions
    /\ UNCHANGED <<question, should_include, final_answers, stored_questions,
                   fetched_questions, processing_result, ranking_result,
                   earlier_calls, remote_final, existing_retrieved,
                   total_submitted, successful_updates, update_index, runs,
                   rankVars, catVars, cmpVars>>

\* combined_result = ranking_result.copy(); combined_result.update({...})
CombineWithFinalResult ==
    /\ pc = "submitted"
    /\ summary' = Updated(ranking_result,
                          SubmissionEntries(final_result, final_summary))
    /\ pc' = "done"
    /\ UNCHANGED <<stored_questions, fetched_questions, processing_result,
                   ranking_result, final_summary, earlier_calls, subVars,
                   rankVars, eligVars, catVars, cmpVars>>

\* process_all_questions_with_final_submission is called again
RunAgain ==
    /\ pc \in {"done", "aborted"}
    /\ runs < MaxRuns
    /\ runs' = runs + 1
    /\ earlier_calls' = earlier_calls \o calls
    /\ pc' = "fetch"
    /\ fetched_questions' = <<>>
    /\ processing_result' = NoDict
    /\ ranking_result' = NoDict
    /\ final_summary' = NoDict
    /\ summary' = NoDict
    /\ questions' = <<>>
    /\ final_questions' = <<>>
    /\ existing_final_questions' = <<>>
    /\ existing_retrieved' = FALSE
    /\ new_questions' = <<>>
    /\ updated_questions' = <<>>
    /\ unchanged_questions' = <<>>
    /\ calls' = <<>>
    /\ total_submitted' = 0
    /\ successful_updates' = 0
    /\ update_index' = 0
    /\ final_result' = NoDict
    /\ UNCHANGED <<question, should_include, final_answers, stored_questions,
                   remote_final, rankVars, cmpVars>>

NextRun ==
    \/ FetchQuestions
    \/ UpdateProcessedQuestions
    \/ RefetchQuestions
    \/ GetExistingFinalQuestions
    \/ SubmitAllAsNew
    \/ CategorizeQuestionsForSubmission
    \/ SubmitNewFinalQuestions
    \/ UpdateSingleFinalQuestion
    \/ FinishSubmission
    \/ CombineWithFinalResult
    \/ RunAgain

SpecRun == InitRun /\ [][NextRun]_vars

(***************************************************************************)
(* Properties of the run                                                   *)
(***************************************************************************)
AllSucceeded(cs) == \A k \in DOMAIN cs : cs[k].outcome = "ok"

\* the calls of this run that write to the remote store
StoreWriteCalls ==
    SelectSeq(calls, LAMBDA c : c.op \in {"bulk", "create", "update"})

\* the calls of this run of one kind
CallsOf(op) == {k \in DOMAIN calls : calls[k].op = op}

\* C13, as claimed: when the whole run is made twice and every call of the
\* first run succeeded, the second run classifies every prepared record as
\* unchanged and makes no write call to the remote store.
C13_SecondRunWritesNothing ==
    (pc = "done" /\ runs = 2 /\ AllSucceeded(earlier_calls)) =>
        /\ unchanged_questions = final_questions
        /\ StoreWriteCalls = <<>>

\* C13, amended: when the whole run is made twice, every call of the first
\* run succeeded, the second run could fetch the final collection and the
\* prepared records have non-empty, pairwise distinct trimmed lower-cased
\* question texts, the second run classifies every prepared record as
\* unchanged and makes no create call and no update call.
C13_SecondRunSubmitsNothing ==
    (pc = "done" /\ runs = 2 /\ AllSucceeded(earlier_calls)
        /\ (\A k \in CallsOf("fetchFinal") : calls[k].outcome = "ok")
        /\ DistinctTexts(final_questions)) =>
            /\ unchanged_questions = final_questions
            /\ WriteCalls = <<>>

\* a second run over two questions whose records the first run created: the
\* rankings are persisted again, both records are unchanged
C13_Witness ==
    /\ pc = "done"
    /\ runs = 2
    /\ AllSucceeded(earlier_calls)
    /\ \E k \in DOMAIN earlier_calls :
            earlier_calls[k].op = "create" /\ Len(earlier_calls[k].sent) = 2
    /\ AllSucceeded(calls)
    /\ CallsOf("bulk") # {}
    /\ Len(final_questions) = 2
    /\ DistinctTexts(final_questions)
    /\ unchanged_questions = final_questions
    /\ summary.final_submission_success

\* C16 (nothing persisted, nothing submitted): when the bulk persist reports
\* updated_count = 0 the run ends at once: no re-fetch of the questions, no
\* fetch of the final collection, no create call and no update call, and the
\* summary reports final_submitted_count = 0 and final_submission_success
\* false.
C16_NothingPersistedShortCircuit ==
    (pc = "done" /\ ranking_result.updated_count = 0) =>
        /\ \A k \in DOMAIN calls :
                calls[k].op \notin {"refetch", "fetchFinal", "create", "update"}
        /\ summary.final_submitted_count = 0
        /\ summary.final_submission_success = FALSE

\* two questions ranked, the bulk update refused
C16_Witness ==
    /\ pc = "done"
    /\ ranking_result.updated_count = 0
    /\ ranking_result.processed_count = 2
    /\ ranking_result.failed_count = 2
    /\ Len(calls) = 2
    /\ calls[2].op = "bulk" /\ calls[2].outcome = "rejected"
    /\ remote_final = <<>>

\* the counts of the summary
SummaryCounts ==
    {"total_questions", "processed_count", "skipped_count", "validation_failed",
     "updated_count", "failed_count", "answers_ranked", "answers_scored"}

\* C17 (empty fetch): when the initial fetch returns an empty list the run
\* ends without raising, makes no write call, and returns a summary in which
\* the total, processed, skipped, validation-failed, updated, failed, ranked
\* and scored counts are all present and 0.
C17_EmptyFetchSummary ==
    (pc # "fetch" /\ calls[1].outcome # "raised" /\ fetched_questions = <<>>) =>
        /\ pc = "done"
        /\ StoreWriteCalls = <<>>
        /\ SummaryCounts \subseteq DOMAIN summary
        /\ \A c \in SummaryCounts : summary[c] = 0

\* C19 (what raises): the run raises only when the initial fetch fails; the
\* failure of a later call never makes it raise.
C19_OnlyInitialFetchRaises ==
    pc = "aborted" => calls[Len(calls)].op = "fetch"

\* C25 (frame of rank_answers): the result holds exactly the input answers,
\* the same number of them and each with its text, correctness flag and
\* response count (only rank and score may differ), the correct ones before
\* the incorrect ones.
C25_OnlyRankAndScoreChange ==
    pc = "ranked" =>
        /\ Len(all_answers) = Len(answers)
        /\ \A p \in DOMAIN answers :
                \E q \in DOMAIN all_answers :
                    [all_answers[q] EXCEPT !.rank = answers[p].rank,
                                           !.score = answers[p].score] = answers[p]
        /\ \A p, q \in DOMAIN all_answers :
                (p # q) => all_answers[p].answerID # all_answers[q].answerID
        /\ \A p \in CorrectIn(all_answers), q \in IncorrectIn(all_answers) : p < q

\* an incorrect answer given first comes back last with rank and score reset,
\* and the correct answers come back reordered and re-ranked
C25_Witness ==
    /\ pc = "ranked"
    /\ Len(answers) = 3
    /\ ~answers[1].isCorrect /\ answers[1].rank = 1
    /\ answers[2].isCorrect /\ answers[3].isCorrect
    /\ answers[2].responseCount < answers[3].responseCount
    /\ all_answers[1].answerID = 3
    /\ all_answers[2].answerID = 2
    /\ all_answers[3].answerID = 1
    /\ all_answers[3].rank = 0
    /\ all_answers[2].rank # answers[2].rank

\* C29 (idempotence of rank_answers): ranking the list rank_answers returned
\* returns the same answers in the same order with the same ranks and scores
\* and the same two counts, also when correct answers tie on response count.
C29_RankingIdempotent ==
    [][pc = "ranked" =>
        /\ all_answers' = all_answers
        /\ answers_ranked' = answers_ranked
        /\ answers_scored' = answers_scored]_vars

\* a list with two correct answers tied on response count, an incorrect one
\* and a scored rank has been ranked twice
C29_Witness ==
    /\ pc = "ranked_again"
    /\ answers_scored > 0
    /\ IncorrectIn(all_answers) # {}
    /\ \E p, q \in CorrectIn(all_answers) :
            /\ p < q
            /\ all_answers[p].responseCount = all_answers[q].responseCount
            /\ all_answers[p].rank < all_answers[q].rank

\* C24 (frame of the eligibility rules): evaluating the rules leaves the
\* question as it was, every field and the order of its answers included, and
\* issues no remote call.
C24_RulesLeaveQuestion ==
    [][(pc = "eligibility" /\ pc' = "rule_done") =>
        /\ question' = question
        /\ calls' = calls]_vars

\* an eligible Input question whose answers are not in rank order: the emitted
\* answers are sorted and trimmed, the question's own answers are not
C24_Witness ==
    /\ pc = "rule_done"
    /\ should_include
    /\ IsInputType(question)
    /\ question.answers[1].rank > question.answers[2].rank
    /\ final_answers[1].rank < final_answers[2].rank
    /\ question.answers[1].answer # Strip(question.answers[1].answer)

\* every question a record is prepared for is counted ready by the summary,
\* and every prepared record has 3 correct answers with non-empty text,
\* positive score and positive rank
PreparedAreReady ==
    /\ \A p \in DOMAIN questions :
            PreparedFrom(questions[p]) # <<>> =>
                ValidateQuestionForFinalSubmission(questions[p])
    /\ Len(final_questions) <= GetFinalSubmissionSummary(questions).ready_for_final
    /\ \A r \in DOMAIN final_questions :
            LET fa == final_questions[r].answers
            IN  /\ Len(fa) = 3
                /\ \A k \in 1..3 :
                        /\ fa[k].isCorrect
                        /\ fa[k].answer # <<>>
                        /\ fa[k].score > 0
                        /\ fa[k].rank > 0

\* C28, as claimed: every question a Final Question Record is prepared for is
\* also counted ready by get_final_submission_summary, so the prepared
\* records are at most ready_for_final; every prepared record has exactly 3
\* answers, all correct, with non-empty text, score > 0 and strictly
\* increasing positive ranks.
C28_PreparedReadyStrictRanks ==
    pc = "prepared" =>
        /\ PreparedAreReady
        /\ \A r \in DOMAIN final_questions :
                LET fa == final_questions[r].answers
                IN  fa[1].rank < fa[2].rank /\ fa[2].rank < fa[3].rank

\* C28, amended: as claimed, but the positive ranks of a prepared record are
\* in non-decreasing order; they are the stored ranks, which may repeat.
C28_PreparedReadySortedRanks ==
    pc = "prepared" =>
        /\ PreparedAreReady
        /\ \A r \in DOMAIN final_questions :
                LET fa == final_questions[r].answers
                IN  fa[1].rank <= fa[2].rank /\ fa[2].rank <= fa[3].rank

\* a record prepared from a question that stores the same rank twice, next to
\* a record with three different ranks; the summary counts both questions
C28_Witness ==
    /\ pc = "prepared"
    /\ Len(final_questions) = 2
    /\ GetFinalSubmissionSummary(questions).ready_for_final = 2
    /\ \E r \in 1..2 :
            LET fa == final_questions[r].answers
            IN  fa[1].rank = fa[2].rank /\ fa[2].rank < fa[3].rank
    /\ Len(question.answers) = 4

\* the question has an answer marked correct
HasCorrect(q) == \E p \in DOMAIN q.answers : q.answers[p].isCorrect

\* the question is validated after ranking and fails: it has a correct
\* answer, so it is not skipped, and it has no identifier
FailsValidation(q) == HasCorrect(q) /\ q.questionID = ""

\* the bulk calls of the run
BulkCalls == {k \in DOMAIN calls : calls[k].op = "bulk"}

\* C22 (validation failures during Ranking): a question that fails structural
\* validation is counted in validation_failed, is not in the list handed to
\* the bulk persist call, and the questions that follow it are processed.
C22_ValidationFailureCounted ==
    (processing_result # NoDict) =>
        LET failing == {p \in DOMAIN fetched_questions :
                            FailsValidation(fetched_questions[p])}
            processed == processing_result.processed_questions
        IN  /\ processing_result.validation_failed = Cardinality(failing)
            /\ \A k \in DOMAIN processed : ~FailsValidation(processed[k])
            /\ \A c \in BulkCalls : \A k \in DOMAIN calls[c].sent :
                    calls[c].sent[k].questionID # ""
            /\ \A p \in failing : \A q \in DOMAIN fetched_questions :
                    (p < q /\ HasCorrect(fetched_questions[q])
                           /\ ~FailsValidation(fetched_questions[q])) =>
                        \E k \in DOMAIN processed :
                            processed[k].questionID = fetched_questions[q].questionID

\* a batch of a skipped question, a question failing validation and a valid
\* one after it: the valid one alone was sent in the bulk call
C22_Witness ==
    /\ Len(fetched_questions) = 3
    /\ FailsValidation(fetched_questions[2])
    /\ processing_result # NoDict
    /\ processing_result.validation_failed = 1
    /\ processing_result.processed_count = 1
    /\ \E c \in BulkCalls :
            /\ Len(calls[c].sent) = 1
            /\ calls[c].sent[1].questionID = fetched_questions[3].questionID

\* C26 (the counts partition the batch): for a non-empty fetched batch
\* processed_count + skipped_count + validation_failed = total_questions, and
\* the number of questions handed to the bulk persist call is processed_count.
C26_CountsPartitionBatch ==
    (ranking_result # NoDict /\ fetched_questions # <<>>) =>
        /\ ranking_result.total_questions = Len(fetched_questions)
        /\ ranking_result.processed_count + ranking_result.skipped_count
                + ranking_result.validation_failed = ranking_result.total_questions
        /\ Len(processing_result.processed_questions) = ranking_result.processed_count
        /\ \A c \in BulkCalls :
                Len(calls[c].sent) = ranking_result.processed_count

\* a batch of three with one question processed, one skipped and one failing
\* validation, after its bulk call
C26_Witness ==
    /\ ranking_result # NoDict
    /\ Len(fetched_questions) = 3
    /\ ranking_result.processed_count = 1
    /\ ranking_result.skipped_count = 1
    /\ ranking_result.validation_failed = 1
    /\ BulkCalls # {}

\* the place of a call in the state machine of a run
Stage(op) ==
    CASE op = "fetch" -> 1
      [] op = "bulk" -> 2
      [] op = "refetch" -> 3
      [] op = "fetchFinal" -> 4
      [] op = "create" -> 5
      [] op = "update" -> 6

\* a call of the stage before has been issued earlier in the run
Preceded(k) ==
    \E j \in 1..(k - 1) : Stage(calls[j].op) = Stage(calls[k].op) - 1

\* C23 (order of the external calls of a run): the initial fetch precedes the
\* bulk persist, the bulk persist the re-fetch, the re-fetch the fetch of the
\* final collection, and that fetch every create and update call; the create
\* call precedes the update calls. No call is issued before a call of a later
\* stage, and a bulk persist, re-fetch or fetch of the final collection has
\* the call of the stage before it earlier in the run.
C23_CallsInStateMachineOrder ==
    /\ \A j, k \in DOMAIN calls :
            j < k => Stage(calls[j].op) <= Stage(calls[k].op)
    /\ \A k \in DOMAIN calls :
            /\ calls[k].op \in {"bulk", "refetch", "fetchFinal"} => Preceded(k)
            /\ calls[k].op \in {"create", "update"} =>
                    \E j \in 1..(k - 1) : calls[j].op = "fetchFinal"

\* a run that issued a call of every stage, an update after the create
C23_Witness ==
    /\ pc = "done"
    /\ {calls[k].op : k \in DOMAIN calls} =
            {"fetch", "bulk", "refetch", "fetchFinal", "create", "update"}

\* the calls of the run to the final collection
FinalCollectionCalls ==
    {k \in DOMAIN calls : calls[k].op \in {"fetchFinal", "create", "update"}}

\* C30 (calls to the final collection): in every run at most one create call
\* is issued, a create call never carries an empty record list, and no fetch,
\* create or update call goes to the final collection unless at least one
\* Final Question Record was prepared from the re-fetched questions.
C30_CreateOnceAndOnlyWhenPrepared ==
    /\ Cardinality(CallsOf("create")) <= 1
    /\ \A k \in CallsOf("create") : calls[k].sent # <<>>
    /\ FinalCollectionCalls # {} =>
            PrepareQuestionsForFinalSubmission(questions) # <<>>

\* a second run that issued its one create call after the first run issued
\* one as well
C30_Witness ==
    /\ pc = "done"
    /\ runs = 2
    /\ \E k \in DOMAIN earlier_calls : earlier_calls[k].op = "create"
    /\ Cardinality(CallsOf("create")) = 1
    /\ CallsOf("update") # {}

\* C27 (counts of the handler result): in the result of
\* _handle_final_submission_with_updates when the final collection was
\* retrieved, details.new_submitted + details.updated + details.unchanged =
\* total_processed, the number of prepared records, and submitted_count is at
\* most details.new_submitted + details.updated.
C27_DetailsPartitionProcessed ==
    (pc = "submitted" /\ existing_retrieved) =>
        /\ "details" \in DOMAIN final_result
        /\ final_result.total_processed = Len(final_questions)
        /\ final_result.details.new_submitted + final_result.details.updated
                + final_result.details.unchanged = final_result.total_processed
        /\ final_result.submitted_count <=
                final_result.details.new_submitted + final_result.details.updated

(***************************************************************************)
(* Specification of the question processor                                 *)
(***************************************************************************)
InitProc ==
    /\ pc = "process_question"
    /\ scoring_values \in ScoringTables
    /\ \E as \in AnswerLists : question = QuestionWith("q1", <<"q">>, InputTag, as)
    /\ answers = <<>>
    /\ all_answers = <<>>
    /\ answers_ranked = 0
    /\ answers_scored = 0
    /\ should_include = FALSE
    /\ final_answers = <<>>
    /\ questions = <<>>
    /\ final_questions = <<>>
    /\ CatIdle
    /\ CmpIdle
    /\ SubIdle
    /\ RunIdle

\* QuestionProcessor.process_question: the question is changed in place and
\* returned with the two counts
ProcessQuestionCall ==
    /\ pc = "process_question"
    /\ LET r == ProcessQuestion(question, scoring_values)
       IN  /\ question' = r.question
           /\ answers_ranked' = r.answers_ranked
           /\ answers_scored' = r.answers_scored
    /\ pc' = "processed"
    /\ UNCHANGED <<scoring_values, answers, all_answers, should_include,
                   final_answers, questions, final_questions, catVars,
                   cmpVars, subVars, runVars>>

NextProc == ProcessQuestionCall

SpecProc == InitProc /\ [][NextProc]_vars

\* the two outcomes of process_question apart from the scored count
ProcessedOrSkipped ==
    \/ /\ ~HasCorrect(question)
       /\ question' = question
       /\ answers_ranked' = 0 /\ answers_scored' = 0
    \/ /\ HasCorrect(question)
       /\ question' = [question EXCEPT
                !.answers = RankAnswersOf(question.answers, scoring_values).list]
       /\ answers_ranked' > 0

\* C21, as claimed: process_question either returns the question unchanged
\* with ranked count = scored count = 0, when it has no answers or no correct
\* answer, or returns it with its answers replaced by the ranker's output and
\* with ranked count > 0 and scored count > 0.
C21_UnchangedOrCounted ==
    [][pc = "process_question" =>
        /\ ProcessedOrSkipped
        /\ HasCorrect(question) => answers_scored' > 0]_vars

\* C21, amended: process_question either returns the question unchanged with
\* ranked count = scored count = 0, when it has no answers or no correct
\* answer, or returns it with its answers replaced by the ranker's output and
\* with ranked count > 0; the scored count is then the number of returned
\* answers whose score is positive, which may be 0.
C21_UnchangedOrRanked ==
    [][pc = "process_question" =>
        /\ ProcessedOrSkipped
        /\ HasCorrect(question) =>
            answers_scored' = Cardinality({p \in DOMAIN question'.answers :
                                              question'.answers[p].score > 0})]_vars

\* a question ranked under an empty scoring table: two answers ranked, none
\* scored
C21_Witness ==
    /\ pc = "processed"
    /\ scoring_values = <<>>
    /\ answers_ranked = 2
    /\ answers_scored = 0
    /\ Len(question.answers) = 3
    /\ question.answers[1].rank = 1 /\ question.answers[2].rank = 2
    /\ ~question.answers[3].isCorrect

====
